---- MODULE Spec2Model ----
(***************************************************************************)
(* ProofViz front end: the layered layout of the proof graph               *)
(* (getLayoutedElements) and the App / GraphDisplay state machine          *)
(* (graphData, highlightedNodes, the React Flow nodes and edges).          *)
(***************************************************************************)
EXTENDS Integers, Sequences, FiniteSets, TLC

(***************************************************************************)
(* Bounds of the model.                                                    *)
(***************************************************************************)
MaxLayoutNodes == 4
MaxLayoutEdges == 3

\* Node ids are opaque strings (String(node.id)).
Ids == {"A", "B", "C"}

(***************************************************************************)
(* Layout constants.                                                       *)
(***************************************************************************)
nodeWidth == 500
nodeHeight == 100
horizontalSpacing == 100
verticalSpacing == 100

(***************************************************************************)
(* JavaScript numbers as far as the layout needs them: finite integers,    *)
(* NaN and -Infinity (Math.max() of no arguments).                         *)
(***************************************************************************)
Fin(v) == [k |-> "fin", v |-> v]
NaN == [k |-> "nan", v |-> 0]
NegInf == [k |-> "ninf", v |-> 0]

\* a + b
NumAdd(a, b) ==
  IF a.k = "nan" \/ b.k = "nan" THEN NaN
  ELSE IF a.k = "ninf" \/ b.k = "ninf" THEN NegInf
  ELSE Fin(a.v + b.v)

\* a - b  (b is never -Infinity where the layout subtracts)
NumSub(a, b) ==
  IF a.k = "nan" \/ b.k = "nan" THEN NaN
  ELSE IF b.k = "ninf" THEN NaN
  ELSE IF a.k = "ninf" THEN NegInf
  ELSE Fin(a.v - b.v)

\* a * c for a positive finite constant c
NumScale(a, c) == IF a.k = "fin" THEN Fin(a.v * c) ELSE a

\* a / 2 ; every finite value halved by the layout is a multiple of
\* nodeWidth + horizontalSpacing, which is even
NumHalf(a) == IF a.k = "fin" THEN Fin(a.v \div 2) ELSE a

ZeroPosition == [x |-> Fin(0), y |-> Fin(0)]

(***************************************************************************)
(* Small helpers on sequences and maps.                                    *)
(***************************************************************************)
Range(s) == {s[i] : i \in 1..Len(s)}

NodeIds(nodes) == {nodes[i].id : i \in 1..Len(nodes)}

\* Map.set(k, v)
MapSet(m, k, v) == [x \in (DOMAIN m) \cup {k} |-> IF x = k THEN v ELSE m[x]]

EmptyMap == [x \in {} |-> 0]

\* nodes.find(n => n.id === id), as an index; 0 when there is none
FindIndex(nodes, id) ==
  IF \E i \in 1..Len(nodes) : nodes[i].id = id
  THEN CHOOSE i \in 1..Len(nodes) :
         /\ nodes[i].id = id
         /\ \A j \in 1..(i - 1) : nodes[j].id # id
  ELSE 0

Max(S) == CHOOSE m \in S : \A x \in S : x <= m

(***************************************************************************)
(* getLayoutedElements, step 1: adjacency lists and in-degrees.            *)
(***************************************************************************)
\* adjList: for every node id, the targets of the edges leaving it, in edge
\* order; an edge whose source is no node is not recorded.
BuildAdjList(nodes, edges) ==
  [id \in NodeIds(nodes) |->
     LET out == SelectSeq(edges, LAMBDA e : e.source = id)
     IN  [i \in 1..Len(out) |-> out[i].target]]

\* inDegree: 0 for every node id, plus one per edge for the edge's target
\* (whether or not the target or the source is a node).
BuildInDegree(nodes, edges) ==
  [id \in NodeIds(nodes) \cup {edges[i].target : i \in 1..Len(edges)} |->
     Cardinality({i \in 1..Len(edges) : edges[i].target = id})]

(***************************************************************************)
(* getLayoutedElements, step 2: the roots, in node-list order.             *)
(***************************************************************************)
\* Variant: only the first root is taken (find instead of filter).
RootNodesFirstOnly(nodes, inDegree) ==
  LET all == SelectSeq(nodes, LAMBDA n : inDegree[n.id] = 0)
  IN  IF all = <<>> THEN <<>> ELSE <<Head(all)>>

RootNodes(nodes, inDegree) == SelectSeq(nodes, LAMBDA n : inDegree[n.id] = 0)

(***************************************************************************)
(* getLayoutedElements, step 3: the queue loop.                            *)
(* The loop state s holds queue, layers, layerCounts, inDegree, maxLayer,  *)
(* nodes (whose positions the loop assigns) and order (the ids in the      *)
(* order queue.shift() returned them).                                     *)
(***************************************************************************)
\* Variant: a child is queued the first time any parent reaches it (plain
\* breadth-first search), not when its last parent has been processed.
RECURSIVE ProcessChildrenFirstVisit(_, _, _)
ProcessChildrenFirstVisit(children, layer, s) ==
  IF children = <<>> THEN s
  ELSE
    LET childId == Head(children)
        s2 == IF childId \notin DOMAIN s.layers
              THEN [s EXCEPT !.layers = MapSet(@, childId, layer + 1),
                             !.queue = Append(@, childId)]
              ELSE s
    IN  ProcessChildrenFirstVisit(Tail(children), layer, s2)

\* Variant: a child is queued whenever its in-degree is at or below 0.
RECURSIVE ProcessChildrenRequeue(_, _, _)
ProcessChildrenRequeue(children, layer, s) ==
  IF children = <<>> THEN s
  ELSE
    LET childId == Head(children)
        newInDegree == (IF childId \in DOMAIN s.inDegree
                        THEN s.inDegree[childId] ELSE 0) - 1
        s1 == [s EXCEPT !.inDegree = MapSet(@, childId, newInDegree)]
        s2 == IF newInDegree <= 0
              THEN [s1 EXCEPT !.layers = MapSet(@, childId, layer + 1),
                              !.queue = Append(@, childId)]
              ELSE s1
    IN  ProcessChildrenRequeue(Tail(children), layer, s2)

\* Variant: a child is put two layers below the parent that releases it.
RECURSIVE ProcessChildrenSkipLayer(_, _, _)
ProcessChildrenSkipLayer(children, layer, s) ==
  IF children = <<>> THEN s
  ELSE
    LET childId == Head(children)
        newInDegree == (IF childId \in DOMAIN s.inDegree
                        THEN s.inDegree[childId] ELSE 0) - 1
        s1 == [s EXCEPT !.inDegree = MapSet(@, childId, newInDegree)]
        s2 == IF newInDegree = 0
              THEN [s1 EXCEPT !.layers = MapSet(@, childId, layer + 2),
                              !.queue = Append(@, childId)]
              ELSE s1
    IN  ProcessChildrenSkipLayer(Tail(children), layer, s2)

RECURSIVE ProcessChildren(_, _, _)
ProcessChildren(children, layer, s) ==
  IF children = <<>> THEN s
  ELSE
    LET childId == Head(children)
        newInDegree == (IF childId \in DOMAIN s.inDegree
                        THEN s.inDegree[childId] ELSE 0) - 1
        s1 == [s EXCEPT !.inDegree = MapSet(@, childId, newInDegree)]
        s2 == IF newInDegree = 0
              THEN [s1 EXCEPT !.layers = MapSet(@, childId, layer + 1),
                              !.queue = Append(@, childId)]
              ELSE s1
    IN  ProcessChildren(Tail(children), layer, s2)

\* One iteration of while (queue.length > 0).
DequeueStep(adjList, s) ==
  LET nodeId == Head(s.queue)
      layer == s.layers[nodeId]
      indexInLayer == IF layer \in DOMAIN s.layerCounts
                      THEN s.layerCounts[layer] ELSE 0
      idx == FindIndex(s.nodes, nodeId)
      placed == IF idx # 0
                THEN [s.nodes EXCEPT ![idx].position =
                        [x |-> Fin(indexInLayer * (nodeWidth + horizontalSpacing)),
                         y |-> Fin(layer * (nodeHeight + verticalSpacing))]]
                ELSE s.nodes
      children == IF nodeId \in DOMAIN adjList THEN adjList[nodeId] ELSE <<>>
      s1 == [s EXCEPT !.queue = Tail(@),
                      !.maxLayer = IF layer > @ THEN layer ELSE @,
                      !.layerCounts = MapSet(@, layer, indexInLayer + 1),
                      !.nodes = placed,
                      !.order = Append(@, nodeId)]
  IN  ProcessChildren(children, layer, s1)

RECURSIVE QueueLoop(_, _)
QueueLoop(adjList, s) ==
  IF s.queue = <<>> THEN s ELSE QueueLoop(adjList, DequeueStep(adjList, s))

\* Variant: the roots are queued in reverse node-list order.
SeedRootsReversed(nodes, edges) ==
  LET inDegree == BuildInDegree(nodes, edges)
      roots == RootNodes(nodes, inDegree)
  IN  [queue |-> [i \in 1..Len(roots) |-> roots[Len(roots) + 1 - i].id],
       layers |-> [id \in NodeIds(roots) |-> 0],
       layerCounts |-> EmptyMap,
       inDegree |-> inDegree,
       maxLayer |-> 0,
       nodes |-> nodes,
       order |-> <<>>]

\* The loop state after rootNodes.forEach: every root queued at layer 0.
SeedRoots(nodes, edges) ==
  LET inDegree == BuildInDegree(nodes, edges)
      roots == RootNodes(nodes, inDegree)
  IN  [queue |-> [i \in 1..Len(roots) |-> roots[i].id],
       layers |-> [id \in NodeIds(roots) |-> 0],
       layerCounts |-> EmptyMap,
       inDegree |-> inDegree,
       maxLayer |-> 0,
       nodes |-> nodes,
       order |-> <<>>]

(***************************************************************************)
(* getLayoutedElements, step 4: centre every layer.                        *)
(***************************************************************************)
LayerWidth(count) ==
  NumAdd(NumScale(count, nodeWidth),
         NumScale(NumSub(count, Fin(1)), horizontalSpacing))

\* Variant: no centring, every layer starts at x = 0.
CenterLayersNone(s) == s.nodes

CenterLayers(s) ==
  LET counts == {s.layerCounts[l] : l \in DOMAIN s.layerCounts}
      maxLayerWidth == IF counts = {} THEN NegInf ELSE Fin(Max(counts))
      totalWidth == LayerWidth(maxLayerWidth)
      OffsetX(id) ==
        LET nodesInThisLayer ==
              IF id \in DOMAIN s.layers /\ s.layers[id] \in DOMAIN s.layerCounts
              THEN Fin(s.layerCounts[s.layers[id]]) ELSE NaN
        IN  NumHalf(NumSub(totalWidth, LayerWidth(nodesInThisLayer)))
  IN  [i \in 1..Len(s.nodes) |->
         [s.nodes[i] EXCEPT !.position.x = NumAdd(@, OffsetX(s.nodes[i].id))]]

(***************************************************************************)
(* getLayoutedElements(nodes, edges).  LayoutRun keeps the function's      *)
(* local maps next to the nodes it returns; the function returns normally  *)
(* on every input (it has no throw and no failing access).                 *)
(***************************************************************************)
\* Variant: an empty node list is rejected.
LayoutRunRejectsEmpty(nodes, edges) ==
  LET s == QueueLoop(BuildAdjList(nodes, edges), SeedRoots(nodes, edges))
  IN  [outcome |-> IF nodes = <<>> THEN "EmptyGraphError" ELSE "returned",
       nodes |-> CenterLayers(s),
       edges |-> edges,
       layers |-> s.layers,
       layerCounts |-> s.layerCounts,
       order |-> s.order]

LayoutRun(nodes, edges) ==
  LET s == QueueLoop(BuildAdjList(nodes, edges), SeedRoots(nodes, edges))
  IN  [outcome |-> "returned",
       nodes |-> CenterLayers(s),
       edges |-> edges,
       layers |-> s.layers,
       layerCounts |-> s.layerCounts,
       order |-> s.order]

getLayoutedElements(nodes, edges) ==
  LET r == LayoutRun(nodes, edges) IN [nodes |-> r.nodes, edges |-> r.edges]

(***************************************************************************)
(* App.js state (useState) and GraphDisplay state (useNodesState,          *)
(* useEdgesState).  GraphDisplay is mounted exactly while graphData is not *)
(* null; unmounted, its nodes and edges are the empty initial arrays.      *)
(***************************************************************************)
VARIABLES
  graphData,          \* App: null or {nodes, edges, key_concepts}
  isLoading,          \* App: a /process-proof request is running
  validationStatus,   \* App: "idle" | "loading" | "success"
  error,              \* App: the user-facing error message, or none
  highlightedNodes,   \* App: the set of highlighted node ids
  submitInFlight,     \* the /process-proof request awaited by handleSubmit
  validateInFlight,   \* the number of /validate-proof requests awaited
  timers,             \* pending setTimeout(() => setValidationStatus('idle'))
  crashed,            \* a state updater threw while React rendered
  nodes,              \* GraphDisplay: the React Flow nodes
  edges,              \* GraphDisplay: the React Flow edges
  isFreshLayout,      \* whether the last run of Hook 1 took the layout branch
  lastClickedNode,    \* the node of the last selection event, if a node click
  lastSelection,      \* the kind of the last selection event since the submit
  draggedAtSubmit,    \* the last submit cleared a graph that had a dragged node
  inNodes,            \* layout run: the nodes handed to getLayoutedElements
  inEdges,            \* layout run: the edges handed to getLayoutedElements
  layoutOut,          \* layout run: what the call produced
  lpc,                \* layout run: "input" before the call, "done" after
  loopState,          \* layout run step by step: the state of the queue loop
  staleInFlight,      \* /validate-proof requests sent before the last submit
  revision,           \* which GraphDisplay revision runs: current or click-local
  selectedNodeId,     \* click-local GraphDisplay: the selected node, or none
  selectedAtChange    \* click-local: the selection the last graphData change met

appVars == <<graphData, isLoading, validationStatus, error, highlightedNodes,
             submitInFlight, validateInFlight, staleInFlight, timers, crashed>>
viewVars == <<nodes, edges, isFreshLayout, lastClickedNode, lastSelection,
              draggedAtSubmit>>
layoutVars == <<inNodes, inEdges, layoutOut, lpc>>
loopVars == <<loopState>>
oldVars == <<revision, selectedNodeId, selectedAtChange>>
vars == <<appVars, viewVars, layoutVars, loopVars, oldVars>>

(***************************************************************************)
(* Values.                                                                 *)
(***************************************************************************)
Undef == "undefined"          \* a missing key reads as undefined
Null == [isNull |-> TRUE]     \* graphData === null
None == "none"

OpacityFull == "1"
OpacityDim == "0.2"
NoStyle == "none"             \* the element carries no style: full opacity

NoData == [isValid |-> Undef, critique |-> Undef]

\* Bounds of the App model.
MaxNodes == 3        \* node list length up to which handleAddNode is taken
MaxInFlight == 1     \* /validate-proof requests awaited at once
MaxTimers == 1       \* pending success timers
MaxDragPos == 1      \* distinct places a node can be dragged to

(***************************************************************************)
(* What the backend may answer.                                            *)
(***************************************************************************)
ApiNode(id) == [id |-> id, label |-> "stmt", type |-> "deduction", data |-> NoData]

ApiEdge(s, t) == [source |-> s, target |-> t]

\* A JavaScript value that is an array or undefined.
Arr(items) == [defined |-> TRUE, items |-> items]
UndefArr == [defined |-> FALSE, items |-> <<>>]

KeyConcepts ==
  << [name |-> "k1", used_in_nodes |-> Arr(<<"A">>)],
     [name |-> "k2", used_in_nodes |-> Arr(<<"A", "B">>)],
     [name |-> "k3", used_in_nodes |-> Arr(<<"B", "C">>)],
     [name |-> "k4", used_in_nodes |-> Arr(<<>>)],
     [name |-> "k5", used_in_nodes |-> UndefArr] >>

\* /process-proof answers: a chain of two steps, and three steps where C
\* follows from A, B follows from C, and B also follows from A directly.
ApiGraphs ==
  { [nodes |-> <<ApiNode("A"), ApiNode("B")>>,
     edges |-> <<ApiEdge("A", "B")>>,
     key_concepts |-> KeyConcepts],
    [nodes |-> <<ApiNode("A"), ApiNode("B"), ApiNode("C")>>,
     edges |-> <<ApiEdge("A", "C"), ApiEdge("C", "B"), ApiEdge("A", "B")>>,
     key_concepts |-> KeyConcepts] }

\* /validate-proof answers: per node id an entry {isValid, critique}, the
\* critique key missing from the entry of a valid step.
Flawed == [isValid |-> "false", critique |-> "flaw"]
Valid == [isValid |-> "true", critique |-> Undef]

ValidationEntries == {Flawed, Valid}

\* The answers taken: no entry at all, the first step flawed, the first step
\* valid, and the second step flawed with the third valid.
ValidationResponses ==
  { [id \in {} |-> Valid],
    [id \in {"A"} |-> Flawed],
    [id \in {"A"} |-> Valid],
    [id \in {"B", "C"} |-> IF id = "B" THEN Flawed ELSE Valid] }

DragPositions == {[x |-> Fin(0 - i), y |-> Fin(0 - i)] : i \in 1..MaxDragPos}

\* The connections the user draws between displayed nodes (onConnect's
\* params).
ConnectPairs == {<<"B", "C">>}

(***************************************************************************)
(* GraphDisplay, Hook 1 (useLayoutEffect on graphData).                    *)
(***************************************************************************)
\* `(${node.id}) ${node.label}`
FormatLabel(node) == "(" \o node.id \o ") " \o node.label

\* new Map(nodes.map(n => [n.id, n.position])).get(id): the position of the
\* last node carrying the id
ExistingPos(current, id) ==
  LET last == CHOOSE i \in 1..Len(current) :
                /\ current[i].id = id
                /\ \A j \in (i + 1)..Len(current) : current[j].id # id
  IN  current[last].position

\* Variant: every node is rebuilt at the default position.
TransformNodesNoCarry(gd, current) ==
  [i \in 1..Len(gd.nodes) |->
     [id |-> gd.nodes[i].id,
      data |-> [isValid |-> gd.nodes[i].data.isValid,
                critique |-> gd.nodes[i].data.critique,
                label |-> FormatLabel(gd.nodes[i])],
      position |-> ZeroPosition,
      style |-> NoStyle]]

\* graphData.nodes.map(...)
TransformNodes(gd, current) ==
  LET isUpdate == Len(current) > 0
  IN  [i \in 1..Len(gd.nodes) |->
         [id |-> gd.nodes[i].id,
          data |-> [isValid |-> gd.nodes[i].data.isValid,
                    critique |-> gd.nodes[i].data.critique,
                    label |-> FormatLabel(gd.nodes[i])],
          position |-> IF isUpdate /\ gd.nodes[i].id \in NodeIds(current)
                       THEN ExistingPos(current, gd.nodes[i].id)
                       ELSE ZeroPosition,
          style |-> NoStyle]]

\* graphData.edges.map(...)
TransformEdges(gd) ==
  [i \in 1..Len(gd.edges) |->
     [source |-> gd.edges[i].source, target |-> gd.edges[i].target,
      style |-> NoStyle]]

\* Variant: the layout is computed on every graphData change (no isUpdate
\* branch).
Hook1AlwaysLayout(gd, current) ==
  LET newNodes == TransformNodes(gd, current)
      newEdges == TransformEdges(gd)
  IN  [nodes |-> getLayoutedElements(newNodes, newEdges).nodes,
       edges |-> getLayoutedElements(newNodes, newEdges).edges,
       isFreshLayout |-> TRUE]

\* The whole effect: the nodes and edges it hands to setNodes / setEdges.
Hook1(gd, current) ==
  LET isUpdate == Len(current) > 0
      newNodes == TransformNodes(gd, current)
      newEdges == TransformEdges(gd)
  IN  IF ~isUpdate
      THEN [nodes |-> getLayoutedElements(newNodes, newEdges).nodes,
            edges |-> getLayoutedElements(newNodes, newEdges).edges,
            isFreshLayout |-> TRUE]
      ELSE [nodes |-> newNodes, edges |-> newEdges, isFreshLayout |-> FALSE]

(***************************************************************************)
(* GraphDisplay, Hook 2 (useEffect on highlightedNodes).                   *)
(***************************************************************************)
NodeOpacity(hl, id) ==
  IF hl # {} /\ id \notin hl THEN OpacityDim ELSE OpacityFull

\* Variant: an edge stays lit when either endpoint is highlighted.
EdgeOpacityEitherEnd(hl, edge) ==
  IF hl # {} /\ ~(edge.source \in hl \/ edge.target \in hl)
  THEN OpacityDim ELSE OpacityFull

EdgeOpacity(hl, edge) ==
  IF hl # {} /\ ~(edge.source \in hl /\ edge.target \in hl)
  THEN OpacityDim ELSE OpacityFull

\* Variant: the nodes are rebuilt at the default position while restyled.
Hook2NodesRepositioned(current, hl) ==
  [i \in 1..Len(current) |->
     [current[i] EXCEPT !.style = NodeOpacity(hl, current[i].id),
                        !.position = ZeroPosition]]

Hook2Nodes(current, hl) ==
  [i \in 1..Len(current) |->
     [current[i] EXCEPT !.style = NodeOpacity(hl, current[i].id)]]

Hook2Edges(current, hl) ==
  [i \in 1..Len(current) |->
     [current[i] EXCEPT !.style = EdgeOpacity(hl, current[i])]]

(***************************************************************************)
(* App.js helpers.                                                         *)
(***************************************************************************)
\* Variant: a node without an entry in the results loses its metadata.
MergeValidationClearsOthers(prevGraphData, validationResults) ==
  [prevGraphData EXCEPT !.nodes =
     [i \in 1..Len(prevGraphData.nodes) |->
        LET node == prevGraphData.nodes[i]
        IN  IF node.id \in DOMAIN validationResults
            THEN [node EXCEPT !.data =
                    [isValid |-> validationResults[node.id].isValid,
                     critique |-> validationResults[node.id].critique]]
            ELSE [node EXCEPT !.data = NoData]]]

\* handleValidate's setGraphData updater
MergeValidation(prevGraphData, validationResults) ==
  [prevGraphData EXCEPT !.nodes =
     [i \in 1..Len(prevGraphData.nodes) |->
        LET node == prevGraphData.nodes[i]
        IN  IF node.id \in DOMAIN validationResults
            THEN [node EXCEPT !.data =
                    [isValid |-> validationResults[node.id].isValid,
                     critique |-> validationResults[node.id].critique]]
            ELSE node]]

\* Object.values(validationResults).every(node => node.isValid === true)
AllValid(validationResults) ==
  \A id \in DOMAIN validationResults : validationResults[id].isValid = "true"

\* handleNodeClick's setHighlightedNodes updater
ClickHighlight(prevSelected, gd, nodeId) ==
  IF Cardinality(prevSelected) = 1 /\ nodeId \in prevSelected
  THEN {}
  ELSE {nodeId}
       \cup {gd.edges[i].target : i \in {j \in 1..Len(gd.edges) : gd.edges[j].source = nodeId}}
       \cup {gd.edges[i].source : i \in {j \in 1..Len(gd.edges) : gd.edges[j].target = nodeId}}

\* Variant: only the first id of the list is highlighted.
ConceptHighlightFirstOnly(nodeIds) ==
  IF ~nodeIds.defined \/ Len(nodeIds.items) = 0 THEN {} ELSE {nodeIds.items[1]}

\* handleConceptClick's new highlight set
ConceptHighlight(nodeIds) ==
  IF ~nodeIds.defined \/ Len(nodeIds.items) = 0 THEN {} ELSE Range(nodeIds.items)

(***************************************************************************)
(* Initial state: App just mounted, nothing requested, no graph.           *)
(***************************************************************************)
LayoutIdle ==
  /\ inNodes = <<>>
  /\ inEdges = <<>>
  /\ layoutOut = LayoutRun(<<>>, <<>>)
  /\ lpc = "idle"
  /\ loopState = SeedRoots(<<>>, <<>>)

AppMounted ==
  /\ graphData = Null
  /\ isLoading = FALSE
  /\ validationStatus = "idle"
  /\ error = None
  /\ highlightedNodes = {}
  /\ submitInFlight = FALSE
  /\ validateInFlight = 0
  /\ staleInFlight = 0
  /\ selectedNodeId = None
  /\ selectedAtChange = None
  /\ timers = 0
  /\ crashed = FALSE
  /\ nodes = <<>>
  /\ edges = <<>>
  /\ isFreshLayout = FALSE
  /\ lastClickedNode = None
  /\ lastSelection = None
  /\ draggedAtSubmit = FALSE

AppIdle == AppMounted /\ revision = "current"

Init == AppIdle /\ LayoutIdle

(***************************************************************************)
(* App.js handlers.  Each action is the handler together with the render   *)
(* and the GraphDisplay effects its state updates cause.                   *)
(***************************************************************************)
\* Variant: handleSubmit without setGraphData(null), GraphDisplay stays
\* mounted while the request runs.
handleSubmitKeepsGraph ==
  /\ ~crashed
  /\ revision = "current"
  /\ ~isLoading
  /\ isLoading' = TRUE
  /\ validationStatus' = "idle"
  /\ error' = None
  /\ highlightedNodes' = {}
  /\ submitInFlight' = TRUE
  /\ nodes' = Hook2Nodes(nodes, {})
  /\ edges' = Hook2Edges(edges, {})
  /\ lastClickedNode' = None
  /\ lastSelection' = None
  /\ draggedAtSubmit' = \E i \in 1..Len(nodes) : nodes[i].position \in DragPositions
  /\ staleInFlight' = validateInFlight
  /\ UNCHANGED <<graphData, isFreshLayout, validateInFlight, timers, crashed,
                 layoutVars, loopVars, oldVars>>

\* Variant: handleSubmit without setHighlightedNodes(new Set()).
handleSubmitKeepsFocal ==
  /\ ~crashed
  /\ revision = "current"
  /\ ~isLoading
  /\ isLoading' = TRUE
  /\ validationStatus' = "idle"
  /\ error' = None
  /\ graphData' = Null
  /\ submitInFlight' = TRUE
  /\ nodes' = <<>>
  /\ edges' = <<>>
  /\ isFreshLayout' = FALSE
  /\ lastClickedNode' = None
  /\ lastSelection' = None
  /\ draggedAtSubmit' = \E i \in 1..Len(nodes) : nodes[i].position \in DragPositions
  /\ staleInFlight' = validateInFlight
  /\ UNCHANGED <<highlightedNodes, validateInFlight, timers, crashed, layoutVars,
                 loopVars, oldVars>>

\* handleSubmit up to its await: the graph is cleared, GraphDisplay unmounts.
handleSubmit ==
  /\ ~crashed
  /\ revision = "current"
  /\ ~isLoading
  /\ isLoading' = TRUE
  /\ validationStatus' = "idle"
  /\ error' = None
  /\ graphData' = Null
  /\ highlightedNodes' = {}
  /\ submitInFlight' = TRUE
  /\ nodes' = <<>>
  /\ edges' = <<>>
  /\ isFreshLayout' = FALSE
  /\ lastClickedNode' = None
  /\ lastSelection' = None
  /\ draggedAtSubmit' = \E i \in 1..Len(nodes) : nodes[i].position \in DragPositions
  /\ staleInFlight' = validateInFlight
  /\ UNCHANGED <<validateInFlight, timers, crashed, layoutVars, loopVars, oldVars>>

\* handleSubmit after the await resolved: GraphDisplay mounts (its nodes are
\* the empty useNodesState array), Hook 1 runs, then Hook 2 applies the
\* highlight styles.
submitResolved ==
  /\ ~crashed
  /\ revision = "current"
  /\ submitInFlight
  /\ \E g \in ApiGraphs :
       LET h == Hook1(g, nodes)
       IN  /\ graphData' = g
           /\ nodes' = Hook2Nodes(h.nodes, highlightedNodes)
           /\ edges' = Hook2Edges(h.edges, highlightedNodes)
           /\ isFreshLayout' = h.isFreshLayout
  /\ submitInFlight' = FALSE
  /\ isLoading' = FALSE
  /\ UNCHANGED <<validationStatus, error, highlightedNodes, validateInFlight, staleInFlight,
                 timers, crashed, lastClickedNode, lastSelection,
                 draggedAtSubmit, layoutVars, loopVars, oldVars>>

\* handleSubmit after the await rejected.
submitRejected ==
  /\ ~crashed
  /\ submitInFlight
  /\ error' = "Failed to generate visualization."
  /\ submitInFlight' = FALSE
  /\ isLoading' = FALSE
  /\ UNCHANGED <<graphData, validationStatus, highlightedNodes, validateInFlight, staleInFlight,
                 timers, crashed, viewVars, layoutVars, loopVars, oldVars>>

\* handleValidate up to its await (the button is disabled without a graph,
\* while validating and while loading).
handleValidate ==
  /\ ~crashed
  /\ graphData # Null
  /\ validationStatus # "loading"
  /\ ~isLoading
  /\ validateInFlight < MaxInFlight
  /\ validationStatus' = "loading"
  /\ error' = None
  /\ validateInFlight' = validateInFlight + 1
  /\ UNCHANGED <<graphData, isLoading, highlightedNodes, submitInFlight,
                 staleInFlight, timers,
                 crashed, viewVars, layoutVars, loopVars, oldVars>>

\* handleValidate after the await resolved with validationResults.  The
\* updater reads prevGraphData.nodes: on a null graph it throws while React
\* renders, which takes the whole tree down.
validateResolved ==
  /\ ~crashed
  /\ revision = "current"
  /\ validateInFlight > 0
  /\ validateInFlight' = validateInFlight - 1
  /\ \E stale \in BOOLEAN :
       /\ IF stale THEN staleInFlight > 0 ELSE validateInFlight > staleInFlight
       /\ staleInFlight' = IF stale THEN staleInFlight - 1 ELSE staleInFlight
  /\ \E validationResults \in ValidationResponses :
       IF graphData = Null
       THEN /\ crashed' = TRUE
            /\ UNCHANGED <<graphData, validationStatus, timers, viewVars>>
       ELSE LET merged == MergeValidation(graphData, validationResults)
                h == Hook1(merged, nodes)
            IN  /\ AllValid(validationResults) => timers < MaxTimers
                /\ graphData' = merged
                /\ nodes' = h.nodes
                /\ edges' = h.edges
                /\ isFreshLayout' = h.isFreshLayout
                /\ validationStatus' =
                     IF AllValid(validationResults) THEN "success" ELSE "idle"
                /\ timers' = IF AllValid(validationResults) THEN timers + 1 ELSE timers
                /\ UNCHANGED <<crashed, lastClickedNode, lastSelection,
                               draggedAtSubmit>>
  /\ UNCHANGED <<isLoading, error, highlightedNodes, submitInFlight, layoutVars, loopVars, oldVars>>

\* Variant: the catch branch does not reset validationStatus.
validateRejectedKeepsStatus ==
  /\ ~crashed
  /\ validateInFlight > 0
  /\ validateInFlight' = validateInFlight - 1
  /\ \E stale \in BOOLEAN :
       /\ IF stale THEN staleInFlight > 0 ELSE validateInFlight > staleInFlight
       /\ staleInFlight' = IF stale THEN staleInFlight - 1 ELSE staleInFlight
  /\ error' = "Failed to validate proof."
  /\ UNCHANGED <<graphData, isLoading, validationStatus, highlightedNodes,
                 submitInFlight, timers, crashed, viewVars, layoutVars, loopVars,
                 oldVars>>

\* handleValidate after the await rejected.
validateRejected ==
  /\ ~crashed
  /\ validateInFlight > 0
  /\ validateInFlight' = validateInFlight - 1
  /\ \E stale \in BOOLEAN :
       /\ IF stale THEN staleInFlight > 0 ELSE validateInFlight > staleInFlight
       /\ staleInFlight' = IF stale THEN staleInFlight - 1 ELSE staleInFlight
  /\ error' = "Failed to validate proof."
  /\ validationStatus' = "idle"
  /\ UNCHANGED <<graphData, isLoading, highlightedNodes, submitInFlight, timers,
                 crashed, viewVars, layoutVars, loopVars, oldVars>>

\* setTimeout(() => setValidationStatus('idle'), 2500) fires.
timerFires ==
  /\ ~crashed
  /\ timers > 0
  /\ timers' = timers - 1
  /\ validationStatus' = "idle"
  /\ UNCHANGED <<graphData, isLoading, error, highlightedNodes, submitInFlight,
                 validateInFlight, staleInFlight, crashed, viewVars, layoutVars, loopVars, oldVars>>

\* A click on a rendered node: GraphDisplay calls onNodeClick(node.id),
\* handleNodeClick replaces the highlight set, Hook 2 restyles.
handleNodeClick(nodeId) ==
  /\ ~crashed
  /\ revision = "current"
  /\ graphData # Null
  /\ nodeId \in NodeIds(nodes)
  /\ highlightedNodes' = ClickHighlight(highlightedNodes, graphData, nodeId)
  /\ nodes' = Hook2Nodes(nodes, highlightedNodes')
  /\ edges' = Hook2Edges(edges, highlightedNodes')
  /\ lastClickedNode' = IF highlightedNodes' = {} THEN None ELSE nodeId
  /\ lastSelection' = "node"
  /\ UNCHANGED <<graphData, isLoading, validationStatus, error, submitInFlight,
                 validateInFlight, staleInFlight, timers, crashed, isFreshLayout,
                 draggedAtSubmit, layoutVars, loopVars, oldVars>>

\* A click on a concept of ConceptsWindow: handleClick passes the concept's
\* used_in_nodes to handleConceptClick, Hook 2 restyles.
handleConceptClick(nodeIds) ==
  /\ ~crashed
  /\ revision = "current"
  /\ graphData # Null
  /\ highlightedNodes' = ConceptHighlight(nodeIds)
  /\ nodes' = Hook2Nodes(nodes, highlightedNodes')
  /\ edges' = Hook2Edges(edges, highlightedNodes')
  /\ lastClickedNode' = None
  /\ lastSelection' = "concept"
  /\ UNCHANGED <<graphData, isLoading, validationStatus, error, submitInFlight,
                 validateInFlight, staleInFlight, timers, crashed, isFreshLayout,
                 draggedAtSubmit, layoutVars, loopVars, oldVars>>

conceptClicked ==
  /\ graphData # Null
  /\ \E i \in 1..Len(graphData.key_concepts) :
       handleConceptClick(graphData.key_concepts[i].used_in_nodes)

\* A click on the graph background.
handlePaneClick ==
  /\ ~crashed
  /\ revision = "current"
  /\ graphData # Null
  /\ highlightedNodes' = {}
  /\ nodes' = Hook2Nodes(nodes, {})
  /\ edges' = Hook2Edges(edges, {})
  /\ lastClickedNode' = None
  /\ lastSelection' = "pane"
  /\ UNCHANGED <<graphData, isLoading, validationStatus, error, submitInFlight,
                 validateInFlight, staleInFlight, timers, crashed, isFreshLayout,
                 draggedAtSubmit, layoutVars, loopVars, oldVars>>

\* "+ Add Step" with both prompts answered: the node is appended to
\* graphData.nodes and Hook 1 runs on the new graphData.
handleAddNode(label, newId) ==
  /\ ~crashed
  /\ revision = "current"
  /\ graphData # Null
  /\ ~isLoading
  /\ Len(graphData.nodes) < MaxNodes
  /\ LET newNode == [id |-> newId, label |-> label, type |-> "deduction",
                     data |-> NoData]
         next == [graphData EXCEPT !.nodes = Append(@, newNode)]
         h == Hook1(next, nodes)
     IN  /\ graphData' = next
         /\ nodes' = h.nodes
         /\ edges' = h.edges
         /\ isFreshLayout' = h.isFreshLayout
  /\ UNCHANGED <<isLoading, validationStatus, error, highlightedNodes,
                 submitInFlight, validateInFlight, staleInFlight, timers, crashed,
                 lastClickedNode, lastSelection, draggedAtSubmit, layoutVars, loopVars, oldVars>>

\* React Flow reports a finished drag through onNodesChange: the node's
\* position is overwritten, everything else of the node is kept.
onNodesChange(i, position) ==
  /\ ~crashed
  /\ graphData # Null
  /\ i \in 1..Len(nodes)
  /\ nodes' = [nodes EXCEPT ![i].position = position]
  /\ UNCHANGED <<appVars, edges, isFreshLayout, lastClickedNode, lastSelection,
                 draggedAtSubmit, layoutVars, loopVars, oldVars>>

\* The user draws a connection between two displayed nodes: addEdge appends
\* the edge to GraphDisplay's edges unless the connection is there already.
onConnect(source, target) ==
  /\ ~crashed
  /\ revision = "current"
  /\ graphData # Null
  /\ source \in NodeIds(nodes)
  /\ target \in NodeIds(nodes)
  /\ edges' =
       IF \E i \in 1..Len(edges) : edges[i].source = source /\ edges[i].target = target
       THEN edges
       ELSE Append(edges, [source |-> source, target |-> target, style |-> NoStyle])
  /\ UNCHANGED <<appVars, nodes, isFreshLayout, lastClickedNode, lastSelection,
                 draggedAtSubmit, layoutVars, loopVars, oldVars>>

Next ==
  \/ handleSubmit
  \/ submitResolved
  \/ submitRejected
  \/ handleValidate
  \/ validateResolved
  \/ validateRejected
  \/ timerFires
  \/ \E nodeId \in Ids : handleNodeClick(nodeId)
  \/ conceptClicked
  \/ handlePaneClick
  \/ \E newId \in Ids : handleAddNode("new step", newId)
  \/ \E i \in 1..MaxNodes, position \in DragPositions : onNodesChange(i, position)
  \/ \E c \in ConnectPairs : onConnect(c[1], c[2])

Spec == Init /\ [][Next]_vars

(***************************************************************************)
(* The click-local revision: GraphDisplay owns the selection               *)
(* (selectedNodeId), App passes graphData only.  App's handleValidate, its *)
(* timer and its catch branches are the ones above; the handlers above     *)
(* that need the lifted highlight set, "+ Add Step" or onConnect belong to *)
(* the current revision.  Hook 1 lays the graph out on every graphData     *)
(* change and ends with setSelectedNodeId(null); Hook 2 styles by          *)
(* adjacency to the selected node.                                         *)
(***************************************************************************)
\* Hook 1 of the click-local revision: the nodes and edges it sets.
Hook1ClickLocal(gd) ==
  LET newNodes == TransformNodes(gd, <<>>)
      newEdges == TransformEdges(gd)
  IN  [nodes |-> getLayoutedElements(newNodes, newEdges).nodes,
       edges |-> getLayoutedElements(newNodes, newEdges).edges]

\* graphData.edges.some(edge joins selected and id)
IsConnected(gd, selected, id) ==
  \E i \in 1..Len(gd.edges) :
    \/ gd.edges[i].source = selected /\ gd.edges[i].target = id
    \/ gd.edges[i].target = selected /\ gd.edges[i].source = id

\* Hook 2 of the click-local revision, setNodes updater.
Hook2NodesClickLocal(current, gd, selected) ==
  [i \in 1..Len(current) |->
     [current[i] EXCEPT !.style =
        IF selected = None THEN OpacityFull
        ELSE IF current[i].id = selected \/ IsConnected(gd, selected, current[i].id)
             THEN OpacityFull ELSE OpacityDim]]

\* Hook 2 of the click-local revision, setEdges updater.
Hook2EdgesClickLocal(current, selected) ==
  [i \in 1..Len(current) |->
     [current[i] EXCEPT !.style =
        IF selected = None THEN OpacityFull
        ELSE IF current[i].source = selected \/ current[i].target = selected
             THEN OpacityFull ELSE OpacityDim]]

\* Variant: Hook 1 without setSelectedNodeId(null), the selection outlives
\* the graphData change.
graphDataChangedKeepsSelection(gd) ==
  LET h == Hook1ClickLocal(gd)
  IN  /\ graphData' = gd
      /\ selectedAtChange' = selectedNodeId
      /\ selectedNodeId' = selectedNodeId
      /\ nodes' = Hook2NodesClickLocal(h.nodes, gd, selectedNodeId)
      /\ edges' = Hook2EdgesClickLocal(h.edges, selectedNodeId)
      /\ isFreshLayout' = TRUE

\* App hands GraphDisplay a new graphData: Hook 1 runs, its
\* setSelectedNodeId(null) makes Hook 2 run with no selection.
graphDataChanged(gd) ==
  LET h == Hook1ClickLocal(gd)
  IN  /\ graphData' = gd
      /\ selectedAtChange' = selectedNodeId
      /\ selectedNodeId' = None
      /\ nodes' = Hook2NodesClickLocal(h.nodes, gd, None)
      /\ edges' = Hook2EdgesClickLocal(h.edges, None)
      /\ isFreshLayout' = TRUE

\* handleSubmit up to its await: GraphDisplay unmounts and its state,
\* the selection included, is discarded.
handleSubmitClickLocal ==
  /\ ~crashed
  /\ revision = "click-local"
  /\ ~isLoading
  /\ isLoading' = TRUE
  /\ validationStatus' = "idle"
  /\ error' = None
  /\ graphData' = Null
  /\ submitInFlight' = TRUE
  /\ nodes' = <<>>
  /\ edges' = <<>>
  /\ isFreshLayout' = FALSE
  /\ selectedAtChange' = selectedNodeId
  /\ selectedNodeId' = None
  /\ staleInFlight' = validateInFlight
  /\ UNCHANGED <<highlightedNodes, validateInFlight, timers, crashed,
                 lastClickedNode, lastSelection, draggedAtSubmit, revision,
                 layoutVars, loopVars>>

\* handleSubmit after the await resolved: GraphDisplay mounts on the graph.
submitResolvedClickLocal ==
  /\ ~crashed
  /\ revision = "click-local"
  /\ submitInFlight
  /\ \E g \in ApiGraphs : graphDataChanged(g)
  /\ submitInFlight' = FALSE
  /\ isLoading' = FALSE
  /\ UNCHANGED <<validationStatus, error, highlightedNodes, validateInFlight,
                 staleInFlight, timers, crashed, lastClickedNode, lastSelection,
                 draggedAtSubmit, revision, layoutVars, loopVars>>

\* handleValidate after the await resolved: the merged graphData reaches
\* GraphDisplay, or the updater throws on a null graph.
validateResolvedClickLocal ==
  /\ ~crashed
  /\ revision = "click-local"
  /\ validateInFlight > 0
  /\ validateInFlight' = validateInFlight - 1
  /\ \E stale \in BOOLEAN :
       /\ IF stale THEN staleInFlight > 0 ELSE validateInFlight > staleInFlight
       /\ staleInFlight' = IF stale THEN staleInFlight - 1 ELSE staleInFlight
  /\ \E validationResults \in ValidationResponses :
       IF graphData = Null
       THEN /\ crashed' = TRUE
            /\ UNCHANGED <<graphData, validationStatus, timers, nodes, edges,
                           isFreshLayout, selectedNodeId, selectedAtChange>>
       ELSE /\ AllValid(validationResults) => timers < MaxTimers
            /\ graphDataChanged(MergeValidation(graphData, validationResults))
            /\ validationStatus' =
                 IF AllValid(validationResults) THEN "success" ELSE "idle"
            /\ timers' = IF AllValid(validationResults) THEN timers + 1 ELSE timers
            /\ UNCHANGED crashed
  /\ UNCHANGED <<isLoading, error, highlightedNodes, submitInFlight,
                 lastClickedNode, lastSelection, draggedAtSubmit, revision,
                 layoutVars, loopVars>>

\* A click on a rendered node toggles the selection, Hook 2 restyles.
onNodeClick(nodeId) ==
  /\ ~crashed
  /\ revision = "click-local"
  /\ graphData # Null
  /\ nodeId \in NodeIds(nodes)
  /\ selectedNodeId' = IF selectedNodeId = nodeId THEN None ELSE nodeId
  /\ nodes' = Hook2NodesClickLocal(nodes, graphData, selectedNodeId')
  /\ edges' = Hook2EdgesClickLocal(edges, selectedNodeId')
  /\ UNCHANGED <<appVars, isFreshLayout, lastClickedNode, lastSelection,
                 draggedAtSubmit, revision, selectedAtChange, layoutVars,
                 loopVars>>

ClickLocalNext ==
  \/ handleSubmitClickLocal
  \/ submitResolvedClickLocal
  \/ validateResolvedClickLocal
  \/ \E nodeId \in Ids : onNodeClick(nodeId)

\* Either revision of GraphDisplay is the one that was built.  The steps of
\* Next that leave GraphDisplay alone (a rejected request, handleValidate,
\* the timer) and the drag are the same in both.
RevisionsInit ==
  /\ AppMounted
  /\ LayoutIdle
  /\ revision \in {"current", "click-local"}

RevisionsNext == Next \/ ClickLocalNext

RevisionsSpec == RevisionsInit /\ [][RevisionsNext]_vars

(***************************************************************************)
(* getLayoutedElements on its own: the call is made once on a node list    *)
(* and an edge list drawn from all lists within the bounds.  The nodes     *)
(* carry the position Hook 1 gives a node before a layout, {x: 0, y: 0}.   *)
(***************************************************************************)
SeqsUpTo(S, n) == UNION {[1..k -> S] : k \in 0..n}

LayoutNodeLists ==
  {[i \in 1..Len(ids) |-> [id |-> ids[i], position |-> ZeroPosition]] :
     ids \in SeqsUpTo(Ids, MaxLayoutNodes)}

LayoutEdgeLists ==
  SeqsUpTo({ApiEdge(s, t) : s \in Ids, t \in Ids}, MaxLayoutEdges)

LayoutInit ==
  /\ AppIdle
  /\ inNodes \in LayoutNodeLists
  /\ inEdges \in LayoutEdgeLists
  /\ layoutOut = LayoutRun(<<>>, <<>>)
  /\ lpc = "input"
  /\ loopState = SeedRoots(<<>>, <<>>)

runLayout ==
  /\ lpc = "input"
  /\ layoutOut' = LayoutRun(inNodes, inEdges)
  /\ lpc' = "done"
  /\ UNCHANGED <<appVars, viewVars, inNodes, inEdges, loopVars, oldVars>>

LayoutNext == runLayout

LayoutSpec == LayoutInit /\ [][LayoutNext]_vars

(***************************************************************************)
(* The queue loop of getLayoutedElements one iteration at a time: the      *)
(* loop starts from the queued roots, runs while the queue is not empty    *)
(* and is followed by the centring.  The JavaScript run-time keeps         *)
(* executing the function, hence the weak fairness.                        *)
(***************************************************************************)
MaxLoopNodes == 3
MaxLoopEdges == 3

LoopInit ==
  /\ AppIdle
  /\ inNodes \in {ns \in LayoutNodeLists : Len(ns) <= MaxLoopNodes}
  /\ inEdges \in {es \in LayoutEdgeLists : Len(es) <= MaxLoopEdges}
  /\ layoutOut = LayoutRun(<<>>, <<>>)
  /\ lpc = "loop"
  /\ loopState = SeedRoots(inNodes, inEdges)

loopIteration ==
  /\ lpc = "loop"
  /\ loopState.queue # <<>>
  /\ loopState' = DequeueStep(BuildAdjList(inNodes, inEdges), loopState)
  /\ UNCHANGED <<appVars, viewVars, layoutVars, oldVars>>

loopExit ==
  /\ lpc = "loop"
  /\ loopState.queue = <<>>
  /\ layoutOut' = [outcome |-> "returned",
                   nodes |-> CenterLayers(loopState),
                   edges |-> inEdges,
                   layers |-> loopState.layers,
                   layerCounts |-> loopState.layerCounts,
                   order |-> loopState.order]
  /\ lpc' = "done"
  /\ UNCHANGED <<appVars, viewVars, inNodes, inEdges, loopVars, oldVars>>

LoopNext == loopIteration \/ loopExit

LoopSpec == LoopInit /\ [][LoopNext]_vars /\ WF_vars(LoopNext)

(***************************************************************************)
(* Graph notions the properties speak of.                                  *)
(***************************************************************************)
UniqueIds(ns) ==
  \A i \in 1..Len(ns) : \A j \in 1..Len(ns) : ns[i].id = ns[j].id => i = j

\* every edge references existing nodes
ValidEndpoints(ns, es) ==
  \A i \in 1..Len(es) : es[i].source \in NodeIds(ns) /\ es[i].target \in NodeIds(ns)

\* the edges restricted to valid endpoints, as a set of pairs
ValidPairs(ns, es) ==
  {<<es[i].source, es[i].target>> : i \in
     {j \in 1..Len(es) : es[j].source \in NodeIds(ns) /\ es[j].target \in NodeIds(ns)}}

RECURSIVE ReachableFrom(_, _)
ReachableFrom(E, S) ==
  LET T == S \cup {e[2] : e \in {f \in E : f[1] \in S}}
  IN  IF T = S THEN S ELSE ReachableFrom(E, T)

HasCycle(ns, es) ==
  \E e \in ValidPairs(ns, es) : e[1] \in ReachableFrom(ValidPairs(ns, es), {e[2]})

WellFormedDag(ns, es) ==
  UniqueIds(ns) /\ ValidEndpoints(ns, es) /\ ~HasCycle(ns, es)

HasIncomingEdge(es, id) == \E i \in 1..Len(es) : es[i].target = id

(***************************************************************************)
(* Properties of getLayoutedElements (checked under LayoutSpec).           *)
(***************************************************************************)

\* C1: on an acyclic graph with unique node ids whose edges all reference
\* existing nodes, every edge goes from a layer to a strictly later layer:
\* both endpoints are layered and layer(target) > layer(source).
C1_EdgesGoDown ==
  (lpc = "done" /\ WellFormedDag(inNodes, inEdges)) =>
    \A i \in 1..Len(inEdges) :
      /\ inEdges[i].source \in DOMAIN layoutOut.layers
      /\ inEdges[i].target \in DOMAIN layoutOut.layers
      /\ layoutOut.layers[inEdges[i].target] > layoutOut.layers[inEdges[i].source]

\* A three-node graph A -> B -> C with the shortcut A -> C has been laid out.
C1_Witness ==
  /\ lpc = "done"
  /\ WellFormedDag(inNodes, inEdges)
  /\ Len(inEdges) = 3
  /\ Cardinality(ValidPairs(inNodes, inEdges)) = 3
  /\ \E id \in DOMAIN layoutOut.layers : layoutOut.layers[id] = 2

\* C2: on every input (cyclic, dangling edges, repeated ids included) every
\* node without an incoming edge is given layer 0, and no layer is negative.
C2_RootsAtZero ==
  lpc = "done" =>
    /\ \A id \in NodeIds(inNodes) :
         ~HasIncomingEdge(inEdges, id) =>
           (id \in DOMAIN layoutOut.layers /\ layoutOut.layers[id] = 0)
    /\ \A id \in DOMAIN layoutOut.layers : layoutOut.layers[id] >= 0

\* A cyclic input with two roots has been laid out.
C2_Witness ==
  /\ lpc = "done"
  /\ HasCycle(inNodes, inEdges)
  /\ Cardinality({id \in NodeIds(inNodes) : ~HasIncomingEdge(inEdges, id)}) = 2
  /\ \A id \in NodeIds(inNodes) :
       ~HasIncomingEdge(inEdges, id) => layoutOut.layers[id] = 0

\* C3: when the edges (restricted to valid endpoints) contain a cycle, the
\* layout reports a CycleError and returns no layout at all.
C3_CycleReported ==
  (lpc = "done" /\ HasCycle(inNodes, inEdges)) => layoutOut.outcome = "CycleError"

(***************************************************************************)
(* Properties of the App / GraphDisplay state machine (checked under Spec).*)
(***************************************************************************)
Emphasis(style) == IF style = OpacityDim THEN "DIMMED" ELSE "NORMAL"

IdList(ns) == [i \in 1..Len(ns) |-> ns[i].id]

\* A step that replaces the displayed graph by one with the same nodes and
\* edges in which only node metadata changed.
MetadataOnlyUpdate ==
  /\ graphData # Null
  /\ graphData' # Null
  /\ graphData' # graphData
  /\ IdList(graphData'.nodes) = IdList(graphData.nodes)
  /\ graphData'.edges = graphData.edges

\* C4: when the displayed graph (node ids unique) is replaced by a graph with
\* the same node ids in which only metadata changed, every displayed node
\* keeps the position it had right before the update, dragged or not, and
\* Hook 1 does not run the layout.
C4_PositionsKept ==
  [][(MetadataOnlyUpdate /\ UniqueIds(graphData.nodes)) =>
       /\ Len(nodes') = Len(nodes)
       /\ \A i \in 1..Len(nodes) :
            /\ nodes'[i].id = nodes[i].id
            /\ nodes'[i].position = nodes[i].position
       /\ isFreshLayout' = FALSE]_vars

\* A graph with unique ids is displayed after a drag and a validation: one
\* node sits where the user dragged it, another carries the validation
\* result, and the last run of Hook 1 did not lay out.
C4_Witness ==
  /\ graphData # Null
  /\ UniqueIds(graphData.nodes)
  /\ ~isFreshLayout
  /\ \E i \in 1..Len(nodes) : nodes[i].position \in DragPositions
  /\ \E i \in 1..Len(nodes) :
       nodes[i].data.isValid = "false" /\ nodes[i].position \notin DragPositions

\* C5: when the displayed graph is replaced by one (node ids unique) whose
\* node-id set differs, Hook 1 lays the whole graph out again, every node
\* gets its layout position, and a fresh layout is reported.
C5_RelayoutOnNewIdSet ==
  [][(/\ graphData # Null
      /\ graphData' # Null
      /\ UniqueIds(graphData'.nodes)
      /\ NodeIds(graphData'.nodes) # NodeIds(graphData.nodes)) =>
       /\ isFreshLayout' = TRUE
       /\ \A i \in 1..Len(nodes') :
            nodes'[i].position =
              getLayoutedElements(TransformNodes(graphData', <<>>),
                                  TransformEdges(graphData')).nodes[i].position]_vars

\* C6: a metadata-only update is a shallow merge: a critique stored on a node
\* survives every update that brings no critique for that node.  (Every
\* validation entry of the model either carries a critique text or lacks the
\* key, so a stored critique can only be replaced by a critique.)
C6_StoredCritiqueKept ==
  [][(MetadataOnlyUpdate /\ UniqueIds(graphData.nodes)) =>
       \A i \in 1..Len(graphData.nodes) :
         graphData.nodes[i].data.critique # Undef =>
           graphData'.nodes[i].data.critique # Undef]_vars

\* C7: in every state (graph displayed, node ids unique) the emphasis of
\* every displayed node and edge is the value computed from the current
\* highlight set and graph.
C7_EmphasisDerived ==
  (graphData # Null /\ UniqueIds(graphData.nodes)) =>
    /\ \A i \in 1..Len(nodes) :
         Emphasis(nodes[i].style) =
           (IF highlightedNodes # {} /\ nodes[i].id \notin highlightedNodes
            THEN "DIMMED" ELSE "NORMAL")
    /\ \A i \in 1..Len(edges) :
         Emphasis(edges[i].style) =
           (IF highlightedNodes # {} /\ ~(edges[i].source \in highlightedNodes
                                          /\ edges[i].target \in highlightedNodes)
            THEN "DIMMED" ELSE "NORMAL")

Adjacent(gd, a, b) ==
  \E i \in 1..Len(gd.edges) :
    \/ (gd.edges[i].source = a /\ gd.edges[i].target = b)
    \/ (gd.edges[i].source = b /\ gd.edges[i].target = a)

\* C8: after a click on a node X that was not the sole focus (node ids
\* unique), a node is NORMAL
\* iff it is X or adjacent to X, and an edge is NORMAL iff X is one of its
\* endpoints.
C8_NeighborHighlight ==
  [][\A X \in Ids :
       (handleNodeClick(X) /\ highlightedNodes # {X} /\ UniqueIds(graphData.nodes)) =>
         /\ \A i \in 1..Len(nodes') :
              (Emphasis(nodes'[i].style) = "NORMAL") <=>
                (nodes'[i].id = X \/ Adjacent(graphData, X, nodes'[i].id))
         /\ \A i \in 1..Len(edges') :
              (Emphasis(edges'[i].style) = "NORMAL") <=>
                (edges'[i].source = X \/ edges'[i].target = X)]_vars

\* C9: a click on the node that the previous selection event, a click on the
\* same node, focused (node ids unique) clears the highlight: afterwards the
\* set is empty and every node and edge is NORMAL.
C9_SecondClickClears ==
  [][\A X \in Ids :
       (lastClickedNode = X /\ handleNodeClick(X) /\ UniqueIds(graphData.nodes)) =>
         /\ highlightedNodes' = {}
         /\ \A i \in 1..Len(nodes') : Emphasis(nodes'[i].style) = "NORMAL"
         /\ \A i \in 1..Len(edges') : Emphasis(edges'[i].style) = "NORMAL"]_vars

\* Hook 2 runs in a step that mounts GraphDisplay or replaces the highlight
\* set (every selection handler sets a new Set object).
Hook2Runs ==
  \/ submitResolved
  \/ \E X \in Ids : handleNodeClick(X)
  \/ conceptClicked
  \/ handlePaneClick

\* C10: the styles Hook 2 writes follow the set-based rule: with an empty
\* highlight set every node and edge is NORMAL; otherwise a node is NORMAL iff
\* its id is in the set and an edge is NORMAL iff both its endpoints are.
C10_SetBasedRule ==
  [][Hook2Runs =>
       /\ \A i \in 1..Len(nodes') :
            nodes'[i].style =
              (IF highlightedNodes' = {} \/ nodes'[i].id \in highlightedNodes'
               THEN OpacityFull ELSE OpacityDim)
       /\ \A i \in 1..Len(edges') :
            edges'[i].style =
              (IF highlightedNodes' = {}
                  \/ (edges'[i].source \in highlightedNodes'
                      /\ edges'[i].target \in highlightedNodes')
               THEN OpacityFull ELSE OpacityDim)]_vars

\* A highlight set that holds one endpoint of an edge but not the other has
\* been applied: that edge and the node outside the set are dimmed, the node
\* inside is not.
C10_Witness ==
  /\ graphData # Null
  /\ highlightedNodes # {}
  /\ \E i \in 1..Len(edges) :
       /\ edges[i].source \in highlightedNodes
       /\ edges[i].target \notin highlightedNodes
       /\ edges[i].style = OpacityDim
  /\ \E i \in 1..Len(nodes) :
       nodes[i].id \in highlightedNodes /\ nodes[i].style = OpacityFull
  /\ \E i \in 1..Len(nodes) :
       nodes[i].id \notin highlightedNodes /\ nodes[i].style = OpacityDim

\* C11: a click on a concept replaces the highlight set, whatever it was, by
\* exactly the ids of the concept's used_in_nodes list (no neighbour is
\* added); a missing or empty list leaves the set empty.
C11_ConceptReplaces ==
  [][\A c \in Range(KeyConcepts) :
       (graphData # Null /\ handleConceptClick(c.used_in_nodes)) =>
         highlightedNodes' =
           (IF c.used_in_nodes.defined
            THEN {id \in Ids : \E k \in 1..Len(c.used_in_nodes.items) :
                                 c.used_in_nodes.items[k] = id}
            ELSE {})]_vars

\* The last selection was a click on a concept used in node A only: exactly
\* A is highlighted although A has the neighbour B, which is dimmed.
C11_Witness ==
  /\ graphData # Null
  /\ lastSelection = "concept"
  /\ highlightedNodes = {"A"}
  /\ Adjacent(graphData, "A", "B")
  /\ \E i \in 1..Len(nodes) : nodes[i].id = "B" /\ nodes[i].style = OpacityDim

\* The node of index i is displayed as before: same id, data and position.
SameNodeContent(i) ==
  /\ nodes'[i].id = nodes[i].id
  /\ nodes'[i].data = nodes[i].data
  /\ nodes'[i].position = nodes[i].position

\* C12: a click on the graph background empties the highlight set whatever
\* was selected before, and leaves graphData (the graph and its metadata),
\* the displayed nodes' ids, data and positions and the displayed edges'
\* endpoints as they were.
C12_PaneClickClears ==
  [][handlePaneClick =>
       /\ highlightedNodes' = {}
       /\ graphData' = graphData
       /\ Len(nodes') = Len(nodes)
       /\ \A i \in 1..Len(nodes) : SameNodeContent(i)
       /\ Len(edges') = Len(edges)
       /\ \A i \in 1..Len(edges) :
            /\ edges'[i].source = edges[i].source
            /\ edges'[i].target = edges[i].target
       /\ \A i \in 1..Len(nodes') : nodes'[i].style = OpacityFull
       /\ \A i \in 1..Len(edges') : edges'[i].style = OpacityFull]_vars

\* The background was clicked on a validated graph with a dragged node: the
\* highlight set is empty, the node is still where it was dragged and the
\* validation result is still on its node.
C12_Witness ==
  /\ graphData # Null
  /\ lastSelection = "pane"
  /\ highlightedNodes = {}
  /\ \E i \in 1..Len(nodes) : nodes[i].position \in DragPositions
  /\ \E i \in 1..Len(nodes) : nodes[i].data.isValid = "false"

(***************************************************************************)
(* Further properties of getLayoutedElements (checked under LayoutSpec).   *)
(***************************************************************************)
Predecessors(E, id) == {e[1] : e \in {f \in E : f[2] = id}}

\* The number of edges of the longest path that ends in id (E acyclic).
RECURSIVE LongestPathTo(_, _)
LongestPathTo(E, id) ==
  IF Predecessors(E, id) = {} THEN 0
  ELSE 1 + Max({LongestPathTo(E, p) : p \in Predecessors(E, id)})

\* C13: on an acyclic graph (unique ids, valid endpoints) every node's layer
\* is the number of edges of the longest path from a root to it: 0 for a
\* root, otherwise one more than the largest layer of its predecessors.
C13_LongestPathLayer ==
  (lpc = "done" /\ WellFormedDag(inNodes, inEdges)) =>
    \A id \in NodeIds(inNodes) :
      /\ id \in DOMAIN layoutOut.layers
      /\ layoutOut.layers[id] = LongestPathTo(ValidPairs(inNodes, inEdges), id)

\* An acyclic graph has been laid out in which a node has two predecessors
\* on different layers and sits one below the deeper one, two or more
\* layers below the other.
C13_Witness ==
  /\ lpc = "done"
  /\ WellFormedDag(inNodes, inEdges)
  /\ \E i \in 1..Len(inEdges), j \in 1..Len(inEdges) :
       /\ inEdges[i].target = inEdges[j].target
       /\ layoutOut.layers[inEdges[i].source] < layoutOut.layers[inEdges[j].source]
       /\ layoutOut.layers[inEdges[i].target] = layoutOut.layers[inEdges[j].source] + 1

\* The ids of layer L in the order the queue loop dequeued them.
LayerOrder(out, L) == SelectSeq(out.order, LAMBDA id : out.layers[id] = L)

\* The 0-based place of id among the dequeued ids of its layer.
PlaceInLayer(out, id) ==
  LET lo == LayerOrder(out, out.layers[id])
  IN  (CHOOSE k \in 1..Len(lo) : lo[k] = id) - 1

NodesInLayer(out, L) == Cardinality({id \in DOMAIN out.layers : out.layers[id] = L})

WidthOf(count) == count * nodeWidth + (count - 1) * horizontalSpacing

WidestLayer(out) ==
  Max({NodesInLayer(out, out.layers[id]) : id \in DOMAIN out.layers})

\* C14: on an acyclic graph (unique ids, valid endpoints) the k-th dequeued
\* node of layer L is placed at y = L * (nodeHeight + verticalSpacing) and
\* x = k * (nodeWidth + horizontalSpacing) + (totalWidth - layerWidth) / 2,
\* layerWidth being the width of the node's layer and totalWidth the width
\* of the widest layer.
C14_Coordinates ==
  (lpc = "done" /\ WellFormedDag(inNodes, inEdges)) =>
    \A i \in 1..Len(inNodes) :
      LET id == inNodes[i].id
          L == layoutOut.layers[id]
          k == PlaceInLayer(layoutOut, id)
          layerWidth == WidthOf(NodesInLayer(layoutOut, L))
          totalWidth == WidthOf(WidestLayer(layoutOut))
      IN  /\ layoutOut.nodes[i].id = id
          /\ layoutOut.nodes[i].position.y = Fin(L * (nodeHeight + verticalSpacing))
          /\ layoutOut.nodes[i].position.x.k = "fin"
          /\ 2 * layoutOut.nodes[i].position.x.v =
               2 * k * (nodeWidth + horizontalSpacing) + (totalWidth - layerWidth)

\* Two roots with a common single child have been laid out: the roots sit
\* side by side on layer 0 and the child lies at their horizontal midpoint,
\* one layer down.
C14_Witness ==
  /\ lpc = "done"
  /\ WellFormedDag(inNodes, inEdges)
  /\ \E a \in 1..Len(inNodes), b \in 1..Len(inNodes), c \in 1..Len(inNodes) :
       /\ ValidPairs(inNodes, inEdges) =
            { <<inNodes[a].id, inNodes[c].id>>, <<inNodes[b].id, inNodes[c].id>> }
       /\ a # b
       /\ layoutOut.nodes[a].position.y = layoutOut.nodes[b].position.y
       /\ layoutOut.nodes[a].position.x.v # layoutOut.nodes[b].position.x.v
       /\ 2 * layoutOut.nodes[c].position.x.v =
            layoutOut.nodes[a].position.x.v + layoutOut.nodes[b].position.x.v
       /\ layoutOut.nodes[c].position.y.v > layoutOut.nodes[a].position.y.v

\* C15: laying out the nodes that a layout run returned, with the same edges,
\* gives the same layers and the same coordinates for every node (NaN
\* counting as equal to NaN).
C15_Idempotent ==
  lpc = "done" =>
    LET again == LayoutRun(layoutOut.nodes, inEdges)
    IN  /\ again.layers = layoutOut.layers
        /\ again.nodes = layoutOut.nodes

\* The same restricted to node lists with unique ids (cyclic inputs and
\* edges with unknown endpoints included).
IdempotentOnUniqueIds ==
  (lpc = "done" /\ UniqueIds(inNodes)) =>
    LET again == LayoutRun(layoutOut.nodes, inEdges)
    IN  /\ again.layers = layoutOut.layers
        /\ again.nodes = layoutOut.nodes

\* The place of id in the order of dequeuing (ids unique: dequeued once).
DequeuePlace(out, id) == CHOOSE k \in 1..Len(out.order) : out.order[k] = id

\* When the last dependency of a non-root id was resolved: the dequeue place
\* of the parent processed last and, among that parent's edges, the place of
\* the last edge to id in the edge list.
ResolvedAt(out, es, id) ==
  Max({DequeuePlace(out, es[i].source) * (Len(es) + 1) + i :
         i \in {j \in 1..Len(es) : es[j].target = id}})

\* The x coordinate of the node with this id (ids unique).
XOf(out, id) == out.nodes[FindIndex(out.nodes, id)].position.x.v

\* C16: for a node list with unique ids, two nodes placed on the same layer
\* stand left to right in the order they were dequeued; on layer 0 that is
\* their order in the node list, on a later layer the order in which their
\* last dependency was resolved.
C16_StableOrder ==
  (lpc = "done" /\ UniqueIds(inNodes)) =>
    \A a \in NodeIds(inNodes) \cap DOMAIN layoutOut.layers :
      \A b \in NodeIds(inNodes) \cap DOMAIN layoutOut.layers :
        (a # b /\ layoutOut.layers[a] = layoutOut.layers[b]) =>
          /\ (XOf(layoutOut, a) < XOf(layoutOut, b)) <=>
               (DequeuePlace(layoutOut, a) < DequeuePlace(layoutOut, b))
          /\ (DequeuePlace(layoutOut, a) < DequeuePlace(layoutOut, b)) <=>
               (IF layoutOut.layers[a] = 0
                THEN FindIndex(inNodes, a) < FindIndex(inNodes, b)
                ELSE ResolvedAt(layoutOut, inEdges, a) < ResolvedAt(layoutOut, inEdges, b))

\* A graph has been laid out in which two children of one parent stand on
\* the same layer in the order of the parent's edges, which is the reverse
\* of their order in the node list.
C16_Witness ==
  /\ lpc = "done"
  /\ WellFormedDag(inNodes, inEdges)
  /\ \E i \in 1..Len(inNodes), j \in 1..Len(inNodes) :
       /\ i < j
       /\ layoutOut.layers[inNodes[i].id] = 1
       /\ layoutOut.layers[inNodes[j].id] = 1
       /\ layoutOut.nodes[j].position.x.v < layoutOut.nodes[i].position.x.v

\* The edges whose source and target are both nodes.
EdgesWithinNodes(ns, es) ==
  SelectSeq(es, LAMBDA e : e.source \in NodeIds(ns) /\ e.target \in NodeIds(ns))

\* C17: for a node list with unique ids and no cycle, edges with an endpoint
\* that is no node count for nothing: only nodes are layered, and every node
\* gets the layer and the position it gets when those edges are left out.
C17_DanglingEdgesDropped ==
  (lpc = "done" /\ UniqueIds(inNodes) /\ ~HasCycle(inNodes, inEdges)) =>
    LET without == LayoutRun(inNodes, EdgesWithinNodes(inNodes, inEdges))
    IN  /\ DOMAIN layoutOut.layers \subseteq NodeIds(inNodes)
        /\ layoutOut.layers = without.layers
        /\ layoutOut.nodes = without.nodes

\* C19: the layout of no nodes and no edges returns normally with no nodes
\* and no edges, and so does Hook 1 on a graph without nodes and edges.
C19_EmptyGraph ==
  (lpc = "done" /\ inNodes = <<>> /\ inEdges = <<>>) =>
    /\ layoutOut.outcome = "returned"
    /\ layoutOut.nodes = <<>>
    /\ layoutOut.edges = <<>>
    /\ layoutOut.layers = EmptyMap
    /\ Hook1([nodes |-> <<>>, edges |-> <<>>, key_concepts |-> <<>>], <<>>).nodes = <<>>
    /\ Hook1([nodes |-> <<>>, edges |-> <<>>, key_concepts |-> <<>>], <<>>).edges = <<>>

\* The layout has run on the empty node list and the empty edge list.
C19_Witness ==
  /\ lpc = "done"
  /\ inNodes = <<>>
  /\ inEdges = <<>>
  /\ layoutOut.order = <<>>
  /\ layoutOut.nodes = <<>>

\* How often id has been put on the queue so far.
TimesEnqueued(id) ==
  Cardinality({k \in 1..Len(loopState.order) : loopState.order[k] = id})
  + Cardinality({k \in 1..Len(loopState.queue) : loopState.queue[k] = id})

NodesWithId(ns, id) == Cardinality({i \in 1..Len(ns) : ns[i].id = id})

\* C22: on every node list and edge list (cycles, edges with unknown
\* endpoints, repeated ids and repeated edges included) the queue loop
\* ends: the queue runs empty and the function returns what the recursive
\* definition of the layout returns.  All along an id is put on the queue
\* at most once, or once per node carrying it when it is a root's id, and
\* the queue never holds more entries than there are nodes and edges.
C22_Terminates ==
  /\ <>(lpc = "done")
  /\ [](\A id \in Ids : TimesEnqueued(id) <= Max({1, NodesWithId(inNodes, id)}))
  /\ [](Len(loopState.order) + Len(loopState.queue) <= Len(inNodes) + Len(inEdges))
  /\ [](lpc = "done" =>
          /\ loopState.queue = <<>>
          /\ layoutOut = LayoutRun(inNodes, inEdges))

\* The loop has ended on an input with a cycle, a repeated edge, an edge to
\* an id that is no node and two nodes with one id, after two or more
\* iterations.
C22_Witness ==
  /\ lpc = "done"
  /\ HasCycle(inNodes, inEdges)
  /\ ~ValidEndpoints(inNodes, inEdges)
  /\ ~UniqueIds(inNodes)
  /\ \E i \in 1..Len(inEdges), j \in 1..Len(inEdges) : i # j /\ inEdges[i] = inEdges[j]
  /\ Len(layoutOut.order) >= 2

RECURSIVE SumOver(_, _)
SumOver(f, S) ==
  IF S = {} THEN 0
  ELSE LET x == CHOOSE y \in S : TRUE IN f[x] + SumOver(f, S \ {x})

TimesDequeued(out, id) == Cardinality({k \in 1..Len(out.order) : out.order[k] = id})

\* C28: on an acyclic graph with unique ids and valid endpoints every node
\* is dequeued exactly once and nothing else is, every node has a layer and
\* finite x and y, and the per-layer counts add up to the number of nodes.
C28_EveryNodeOnce ==
  (lpc = "done" /\ WellFormedDag(inNodes, inEdges)) =>
    /\ \A id \in NodeIds(inNodes) : TimesDequeued(layoutOut, id) = 1
    /\ Len(layoutOut.order) = Len(inNodes)
    /\ DOMAIN layoutOut.layers = NodeIds(inNodes)
    /\ \A i \in 1..Len(layoutOut.nodes) :
         /\ layoutOut.nodes[i].position.x.k = "fin"
         /\ layoutOut.nodes[i].position.y.k = "fin"
    /\ SumOver(layoutOut.layerCounts, DOMAIN layoutOut.layerCounts) = Len(inNodes)

\* Three nodes, two of them roots and the third below both, have been laid
\* out: three dequeues, two nodes counted on layer 0 and one on layer 1.
C28_Witness ==
  /\ lpc = "done"
  /\ WellFormedDag(inNodes, inEdges)
  /\ Len(inNodes) = 3
  /\ Len(layoutOut.order) = 3
  /\ DOMAIN layoutOut.layerCounts = {0, 1}
  /\ layoutOut.layerCounts[0] = 2
  /\ layoutOut.layerCounts[1] = 1

\* C29: on an acyclic graph (unique ids, valid endpoints) a node on layer
\* L > 0 has a direct predecessor on layer L - 1, and every layer from 0 to
\* the deepest one holds a node.
C29_ContiguousLayers ==
  (lpc = "done" /\ WellFormedDag(inNodes, inEdges)) =>
    /\ \A id \in NodeIds(inNodes) :
         layoutOut.layers[id] > 0 =>
           \E p \in Predecessors(ValidPairs(inNodes, inEdges), id) :
             layoutOut.layers[p] = layoutOut.layers[id] - 1
    /\ \A id \in NodeIds(inNodes) :
         \A L \in 0..layoutOut.layers[id] :
           \E other \in NodeIds(inNodes) : layoutOut.layers[other] = L

\* A chain of three nodes has been laid out on the layers 0, 1 and 2.
C29_Witness ==
  /\ lpc = "done"
  /\ WellFormedDag(inNodes, inEdges)
  /\ Len(inNodes) = 3
  /\ Cardinality(ValidPairs(inNodes, inEdges)) = 2
  /\ {layoutOut.layers[id] : id \in NodeIds(inNodes)} = {0, 1, 2}

(***************************************************************************)
(* Further properties of the App / GraphDisplay state machine.             *)
(***************************************************************************)

\* C18: a graph in which two nodes share an id is never displayed: either
\* graphData never holds one, or the failure is reported as a
\* DuplicateIdError and GraphDisplay holds no two nodes with one id.
C18_DuplicateIdRejected ==
  (graphData # Null /\ ~UniqueIds(graphData.nodes)) =>
    (error = "DuplicateIdError" /\ UniqueIds(nodes))

\* C20: when a submit succeeds, Hook 1 reports a fresh layout and every
\* displayed node stands where the layout of the new graph alone puts it;
\* no node stands at a dragged position.
C20_ViewResetOnSubmit ==
  [][submitResolved =>
       /\ isFreshLayout' = TRUE
       /\ Len(nodes') = Len(graphData'.nodes)
       /\ \A i \in 1..Len(nodes') :
            /\ nodes'[i].position \notin DragPositions
            /\ nodes'[i].position =
                 getLayoutedElements(TransformNodes(graphData', <<>>),
                                     TransformEdges(graphData')).nodes[i].position]_vars

\* A graph with a dragged node was replaced through a submit by a graph
\* that is now displayed freshly laid out: its node A, an id every answer
\* of the backend uses, stands at the layout position of a root.
C20_Witness ==
  /\ graphData # Null
  /\ draggedAtSubmit
  /\ isFreshLayout
  /\ \E i \in 1..Len(nodes) : nodes[i].id = "A" /\ nodes[i].position = ZeroPosition
  /\ \A i \in 1..Len(nodes) : nodes[i].position \notin DragPositions

\* Hook 1 runs on a mounted GraphDisplay: graphData is replaced by another
\* graph without a submit in between.
GraphReplaced ==
  /\ graphData # Null
  /\ graphData' # Null
  /\ graphData' # graphData

\* C21: every graph update (validation merge, added node; node ids unique)
\* is reconciled against the nodes displayed right before it: the graph
\* keeps the nodes it had, in order; afterwards GraphDisplay shows exactly
\* the nodes of the new graph with the new graph's metadata, and every node
\* that was displayed stands where it stood, moved by drags or not.
C21_SequentialReconcile ==
  [][(GraphReplaced /\ UniqueIds(graphData'.nodes) /\ UniqueIds(nodes)) =>
       /\ Len(graphData'.nodes) >= Len(graphData.nodes)
       /\ \A i \in 1..Len(graphData.nodes) :
            graphData'.nodes[i].id = graphData.nodes[i].id
       /\ Len(nodes') = Len(graphData'.nodes)
       /\ \A i \in 1..Len(nodes') :
            /\ nodes'[i].id = graphData'.nodes[i].id
            /\ nodes'[i].data.isValid = graphData'.nodes[i].data.isValid
            /\ nodes'[i].data.critique = graphData'.nodes[i].data.critique
            /\ nodes'[i].id \in NodeIds(nodes) =>
                 nodes'[i].position = nodes[FindIndex(nodes, nodes'[i].id)].position]_vars

\* A node was added to the two-step graph and a later validation reached
\* the added node; the first node stands where it was dragged and the
\* second node shows a flaw.
C21_Witness ==
  /\ graphData # Null
  /\ UniqueIds(graphData.nodes)
  /\ Len(nodes) = 3
  /\ Len(graphData.edges) = 1
  /\ nodes[1].position \in DragPositions
  /\ nodes[2].data.isValid = "false"
  /\ nodes[2].position \notin DragPositions
  /\ nodes[3].data.isValid = "true"

\* C23: a validation that resolves on a displayed graph keeps the node ids
\* in order, every node's label and type, the edges and the key concepts;
\* there is a set of results for which every node without an entry is
\* unchanged and every node with an entry differs at most in data.isValid
\* and data.critique, which are the entry's.
C23_ValidateFrame ==
  [][(validateResolved /\ graphData # Null) =>
       /\ graphData' # Null
       /\ graphData'.edges = graphData.edges
       /\ graphData'.key_concepts = graphData.key_concepts
       /\ Len(graphData'.nodes) = Len(graphData.nodes)
       /\ \A i \in 1..Len(graphData.nodes) :
            /\ graphData'.nodes[i].id = graphData.nodes[i].id
            /\ graphData'.nodes[i].label = graphData.nodes[i].label
            /\ graphData'.nodes[i].type = graphData.nodes[i].type
       /\ \E r \in ValidationResponses :
            \A i \in 1..Len(graphData.nodes) :
              IF graphData.nodes[i].id \in DOMAIN r
              THEN /\ graphData'.nodes[i].data.isValid = r[graphData.nodes[i].id].isValid
                   /\ graphData'.nodes[i].data.critique = r[graphData.nodes[i].id].critique
              ELSE graphData'.nodes[i] = graphData.nodes[i]]_vars

\* Validations have resolved on the three-step graph: one node is valid, one
\* shows a flaw with its critique and one has never had an entry.
C23_Witness ==
  /\ graphData # Null
  /\ Len(graphData.edges) = 3
  /\ graphData.key_concepts = KeyConcepts
  /\ \E i \in 1..Len(graphData.nodes) : graphData.nodes[i].data.isValid = "true"
  /\ \E i \in 1..Len(graphData.nodes) : graphData.nodes[i].data.critique = "flaw"
  /\ \E i \in 1..Len(graphData.nodes) : graphData.nodes[i].data = NoData

\* C24: when a validation request fails, graphData, the displayed nodes
\* (with their positions) and edges and the highlight set stay as they
\* are, an error message is set and validationStatus is "idle".
C24_FailedValidate ==
  [][validateRejected =>
       /\ graphData' = graphData
       /\ nodes' = nodes
       /\ edges' = edges
       /\ highlightedNodes' = highlightedNodes
       /\ error' # None
       /\ validationStatus' = "idle"]_vars

\* A validation has failed on a displayed graph with a dragged node and a
\* highlight: the message is shown, the button is idle, no request is
\* pending, the drag and the highlight are still there.
C24_Witness ==
  /\ graphData # Null
  /\ error = "Failed to validate proof."
  /\ validationStatus = "idle"
  /\ validateInFlight = 0
  /\ highlightedNodes # {}
  /\ \E i \in 1..Len(nodes) : nodes[i].position \in DragPositions

\* C26: at most one validation request is pending, and while a request
\* sent since the last submit is pending validationStatus is "loading".
C26_OneValidateInFlight ==
  /\ validateInFlight <= 1
  /\ validateInFlight > staleInFlight => validationStatus = "loading"

\* C27: when the answer to a validation request sent before the last submit
\* arrives, nothing fails and the graph, cleared or new, stays as it is.
C27_StaleValidationIgnored ==
  [][(validateResolved /\ staleInFlight' < staleInFlight) =>
       /\ crashed' = FALSE
       /\ graphData' = graphData]_vars

\* The (source, target) pairs of a list of edges.
EdgePairs(es) == {<<es[i].source, es[i].target>> : i \in 1..Len(es)}

\* C30: while a graph is displayed, GraphDisplay shows exactly the edges of
\* graphData.
C30_EdgesMatchGraph ==
  graphData # Null => EdgePairs(edges) = EdgePairs(graphData.edges)


(***************************************************************************)
(* C25: a "Visualize Proof" submit clears the previous graph and the       *)
(* focal set (graphData is null, GraphDisplay holds nothing, the highlight *)
(* set is empty), and in the step that first displays the new graph the    *)
(* highlight set is still empty and nothing is dimmed; in the click-local  *)
(* revision every step that changes graphData leaves no node selected.     *)
(***************************************************************************)
SubmitStarts == ~submitInFlight /\ submitInFlight'

GraphFirstDisplayed == graphData = Null /\ graphData' # Null

NothingDimmed(ns, es) ==
  /\ \A i \in 1..Len(ns) : ns[i].style # OpacityDim
  /\ \A i \in 1..Len(es) : es[i].style # OpacityDim

C25_SubmitClearsSelection ==
  [][/\ (revision = "current" /\ SubmitStarts) =>
          /\ graphData' = Null
          /\ nodes' = <<>>
          /\ edges' = <<>>
          /\ highlightedNodes' = {}
     /\ (revision = "current" /\ GraphFirstDisplayed) =>
          /\ highlightedNodes = {}
          /\ highlightedNodes' = {}
          /\ nodes' # <<>>
          /\ NothingDimmed(nodes', edges')
     /\ (revision = "click-local" /\ graphData' # graphData) =>
          /\ selectedNodeId' = None
          /\ NothingDimmed(nodes', edges')]_vars

\* The current revision shows a new graph right after a submit that cleared
\* a graph the user had worked on (a node had been dragged): no selection
\* event has happened since, the highlight set is empty.
C25_Witness ==
  /\ revision = "current"
  /\ graphData # Null
  /\ draggedAtSubmit
  /\ lastSelection = None
  /\ highlightedNodes = {}
  /\ Len(nodes) > 0
  /\ \A i \in 1..Len(nodes) : nodes[i].data.isValid = Undef

\* The click-local revision received a validated graph while a node was
\* selected: the selection is gone.
C25_WitnessClickLocal ==
  /\ revision = "click-local"
  /\ graphData # Null
  /\ selectedAtChange # None
  /\ selectedNodeId = None
  /\ \E i \in 1..Len(nodes) : nodes[i].data.isValid # Undef

====
